---- MODULE Spec2Model ----
(***************************************************************************)
(* Model of the court-booking run of src/ath-booking.py: the schedule      *)
(* expander (prepare_booking_list_mode + get_booking_list), the release-   *)
(* time waiter (wait_until_booking_time), the slot scan of book_court and  *)
(* the orchestration in main.                                              *)
(*                                                                         *)
(* Conventions.  Text is a sequence of one-character strings, so that the  *)
(* Python substring test ("x in y") and str.lower() are computed, not      *)
(* assumed.  None and the empty string are both the empty sequence (the    *)
(* code only ever tests them for truthiness).  An instant is a number of   *)
(* wall-clock seconds in America/Los_Angeles counted from 00:00:00 of a    *)
(* Monday (day 0); the code's datetime arithmetic (replace, + timedelta,   *)
(* subtraction of datetimes that share one tzinfo) is wall-clock           *)
(* arithmetic, and sub-second parts are not modelled.  A calendar date is  *)
(* its day number; its weekday is the day number modulo 7 (0 = Monday, as  *)
(* datetime.weekday()).                                                    *)
(***************************************************************************)
EXTENDS Integers, Sequences, FiniteSets, TLC

VARIABLES
  pc,                 \* position of main (or of the function under study)
  env,                \* process environment and command line of the run
  clock,              \* current wall-clock instant (datetime.now(pst_tz))
  to_book_list,       \* main: to_book_list
  BOOKING_DATE,       \* main: BOOKING_DATE (day number; -1 before it is set)
  target_time_str,    \* main: target_time_str ([given |-> FALSE] models None)
  idx,                \* main: 1-based position in to_book_list
  court_idx,          \* main: 1-based position in courts_to_book
  courts_to_book,     \* main: courts_to_book of the entry being booked
  successful_bookings,
  failed_bookings,
  booking_details,
  events,             \* site-facing operations performed so far, in order
  booking_summary,    \* main: booking_summary, once built
  waiter,             \* what the last wait_until_booking_time call did
  lastScan,           \* what the last slot scan of book_court saw and chose
  lastLogin,          \* what the last login call met and chose
  payment_log,        \* Venmo sync: Transaction ID column of the Payment Log rows
  venmo_feed,         \* Venmo sync: transactions of the account, oldest first
  syncs               \* Venmo sync: the invocations of venmo_email_trigger

vars == <<pc, env, clock, to_book_list, BOOKING_DATE, target_time_str, idx,
          court_idx, courts_to_book, successful_bookings, failed_bookings,
          booking_details, events, booking_summary, waiter, lastScan,
          lastLogin, payment_log, venmo_feed, syncs>>

\* What the booking program leaves alone: the state of the Venmo sync
venmoVars == <<payment_log, venmo_feed, syncs>>

\* What the Venmo sync leaves alone: the state of the booking program
bookingVars == <<pc, env, clock, to_book_list, BOOKING_DATE, target_time_str, idx,
                 court_idx, courts_to_book, successful_bookings, failed_bookings,
                 booking_details, events, booking_summary, waiter, lastScan,
                 lastLogin>>

-----------------------------------------------------------------------------
(* Bounds of the model *)

MaxRules == 2       \* longest BOOKING_LIST explored
MaxCells == 3       \* longest reservation grid explored by the slot scan

-----------------------------------------------------------------------------
(* Text *)

UpperLetters == <<"A","B","C","D","E","F","G","H","I","J","K","L","M",
                  "N","O","P","Q","R","S","T","U","V","W","X","Y","Z">>
LowerLetters == <<"a","b","c","d","e","f","g","h","i","j","k","l","m",
                  "n","o","p","q","r","s","t","u","v","w","x","y","z">>

\* str.lower() on one character
LowerChar(c) ==
  IF \E i \in 1..26 : UpperLetters[i] = c
  THEN LowerLetters[CHOOSE i \in 1..26 : UpperLetters[i] = c]
  ELSE c

\* str.upper() on one character
UpperChar(c) ==
  IF \E i \in 1..26 : LowerLetters[i] = c
  THEN UpperLetters[CHOOSE i \in 1..26 : LowerLetters[i] = c]
  ELSE c

\* str.title() on a single word
Title(s) == [i \in 1..Len(s) |-> IF i = 1 THEN UpperChar(s[i]) ELSE LowerChar(s[i])]

\* str.lower()
Lower(s) == [i \in 1..Len(s) |-> LowerChar(s[i])]

\* Python "needle in hay" on strings
Contains(hay, needle) ==
  \E i \in 0..(Len(hay) - Len(needle)) :
     SubSeq(hay, i + 1, i + Len(needle)) = needle

NoText == << >>

PickleballCourt == <<" ","P","i","c","k","l","e","b","a","l","l"," ","C","o","u","r","t">>
NorthCourt == <<"N","o","r","t","h">> \o PickleballCourt
SouthCourt == <<"S","o","u","t","h">> \o PickleballCourt
BothTitle  == <<"B","o","t","h">>
BothLower  == <<"b","o","t","h">>

T_2PM  == <<"2",":","0","0"," ","P","M">>
T_12PM == <<"1","2",":","0","0"," ","P","M">>
T_7PM  == <<"7",":","0","0"," ","P","M">>

\* day_names of get_booking_list: lower-case day name -> datetime.weekday()
day_names == << <<"m","o","n","d","a","y">>,
                <<"t","u","e","s","d","a","y">>,
                <<"w","e","d","n","e","s","d","a","y">>,
                <<"t","h","u","r","s","d","a","y">>,
                <<"f","r","i","d","a","y">>,
                <<"s","a","t","u","r","d","a","y">>,
                <<"s","u","n","d","a","y">> >>

IsDayName(day_str) == \E i \in 1..7 : day_names[i] = day_str
DayNumber(day_str) == (CHOOSE i \in 1..7 : day_names[i] = day_str) - 1

-----------------------------------------------------------------------------
(* Time *)

DaySeconds == 86400           \* timedelta(days=1), in seconds
HalfDaySeconds == 12 * 3600   \* the 12-hour midnight-boundary threshold

HMS(h, m, s) == h * 3600 + m * 60 + s
DateOf(instant) == instant \div DaySeconds
Weekday(date) == date % 7

\* A BOOKING_TARGET_TIME / target_time_str value: either "HH:MM:SS" that
\* parses to integers, or text that does not.
TargetStr(h, m, s) == [parses |-> TRUE, h |-> h, m |-> m, s |-> s]
BadTargetStr == [parses |-> FALSE, h |-> 0, m |-> 0, s |-> 0]

\* The try/except that parses the target time; the fallback is 00:01:00.
ParseTargetTime(str) ==
  IF str.parses THEN HMS(str.h, str.m, str.s) ELSE HMS(0, 1, 0)

\* now.replace(hour=.., minute=.., second=.., microsecond=0)
ReplaceTime(instant, secondsOfDay) == DateOf(instant) * DaySeconds + secondsOfDay

-----------------------------------------------------------------------------
(* Release-Time Waiter: wait_until_booking_time *)

DefaultGraceMinutes == 10

NoWait == [called |-> FALSE, now |-> 0, grace |-> 0, early |-> FALSE,
           rolled |-> FALSE, target_time |-> 0, wait_seconds |-> 0, slept |-> 0]

\* CapWait without the cap
CapWait_Uncapped(wait_seconds, max_wait_seconds) == wait_seconds

\* CapWait with twice the cap
CapWait_Doubled(wait_seconds, max_wait_seconds) ==
  IF wait_seconds > 2 * max_wait_seconds THEN 2 * max_wait_seconds ELSE wait_seconds

\* wait_seconds after the safety cap
CapWait(wait_seconds, max_wait_seconds) ==
  IF wait_seconds > max_wait_seconds THEN max_wait_seconds ELSE wait_seconds

\* WaitTarget that always aims at today's occurrence
WaitTarget_Today(now_tz, target_today) == target_today

\* The target instant the waiter aims at, given that the grace-period return
\* was not taken: today's occurrence, or tomorrow's once it has passed.
WaitTarget(now_tz, target_today) ==
  IF now_tz - target_today > 0
  THEN IF now_tz - target_today > HalfDaySeconds
       THEN target_today + DaySeconds    \* "waiting for midnight transition"
       ELSE target_today + DaySeconds    \* "genuinely too late"
  ELSE target_today

\* InGracePeriod with the bound of the grace period left out
InGracePeriod_Exclusive(time_diff_seconds, grace_period_minutes) ==
  time_diff_seconds > 0 /\ time_diff_seconds < grace_period_minutes * 60

\* True when the waiter returns at once because now is within the grace period
InGracePeriod(time_diff_seconds, grace_period_minutes) ==
  time_diff_seconds > 0 /\ time_diff_seconds <= grace_period_minutes * 60

\* One call of wait_until_booking_time at instant now_tz.  slept is the
\* argument of asyncio.sleep, 0 when sleep is not called.
wait_until_booking_time(now_tz, str, grace_period_minutes) ==
  LET target_today == ReplaceTime(now_tz, ParseTargetTime(str))
      time_diff_seconds == now_tz - target_today
  IN IF InGracePeriod(time_diff_seconds, grace_period_minutes)
     THEN [called |-> TRUE, now |-> now_tz, grace |-> grace_period_minutes,
           early |-> TRUE, rolled |-> FALSE, target_time |-> target_today,
           wait_seconds |-> 0, slept |-> 0]
     ELSE LET target_time == WaitTarget(now_tz, target_today)
              wait_seconds == CapWait(target_time - now_tz, grace_period_minutes * 60)
          IN [called |-> TRUE, now |-> now_tz, grace |-> grace_period_minutes,
              early |-> FALSE, rolled |-> (target_time # target_today),
              target_time |-> target_time,
              wait_seconds |-> wait_seconds,
              slept |-> IF wait_seconds > 0 THEN wait_seconds ELSE 0]


-----------------------------------------------------------------------------
(* Schedule Expander: get_booking_list and prepare_booking_list_mode *)

\* One comma-separated entry of BOOKING_LIST after the split on "|" and on
\* the first blank: the day word, the time text (empty when the entry has
\* no blank) and the court text (empty when there is no "|" part).
Entry(day, time, court) == [day |-> day, time |-> time, court |-> court]

\* EntryMatches with the day word compared as written (no lower())
EntryMatches_CaseSensitive(entry, python_weekday) ==
  /\ entry.time # NoText
  /\ IsDayName(entry.day)
  /\ DayNumber(entry.day) = python_weekday

\* The test that puts an entry on the queue: a two-part entry whose day word
\* is a day name equal to the weekday of booking_datetime.
EntryMatches(entry, python_weekday) ==
  /\ entry.time # NoText
  /\ IsDayName(Lower(entry.day))
  /\ DayNumber(Lower(entry.day)) = python_weekday

RECURSIVE FilterEntries(_, _)
FilterEntries(entries, python_weekday) ==
  IF entries = << >> THEN << >>
  ELSE LET entry == Head(entries)
           rest == FilterEntries(Tail(entries), python_weekday)
       IN IF EntryMatches(entry, python_weekday)
          THEN << <<Title(entry.day), entry.time, entry.court>> >> \o rest
          ELSE rest

get_booking_list(booking_list_str, booking_datetime) ==
  FilterEntries(booking_list_str, Weekday(DateOf(booking_datetime)))

\* --invoke-time: absent, a timestamp that strptime parses, or one it rejects
NoInvokeTime == [given |-> FALSE, parses |-> FALSE, instant |-> 0]
InvokeAt(instant) == [given |-> TRUE, parses |-> TRUE, instant |-> instant]
BadInvokeTime == [given |-> TRUE, parses |-> FALSE, instant |-> 0]

\* TargetBookingDatetime without the midnight-boundary step
TargetBookingDatetime_NoRollover(reference_time, target_seconds) ==
  ReplaceTime(reference_time, target_seconds)

\* TargetBookingDatetime that moves on at 12 hours and more
TargetBookingDatetime_RollsAtHalfDay(reference_time, target_seconds) ==
  LET target_booking_datetime == ReplaceTime(reference_time, target_seconds)
  IN IF /\ target_booking_datetime < reference_time
        /\ reference_time - target_booking_datetime >= HalfDaySeconds
     THEN target_booking_datetime + DaySeconds
     ELSE target_booking_datetime

\* target_booking_datetime: the reference day's occurrence of the target
\* clock time, moved one day on across the midnight boundary.
TargetBookingDatetime(reference_time, target_seconds) ==
  LET target_booking_datetime == ReplaceTime(reference_time, target_seconds)
  IN IF /\ target_booking_datetime < reference_time
        /\ reference_time - target_booking_datetime > HalfDaySeconds
     THEN target_booking_datetime + DaySeconds
     ELSE target_booking_datetime

BookingLeadDays == 7

\* prepare_booking_list_mode without the "if not to_book_list" return
prepare_booking_list_mode_NoEmptyCheck(booking_list_str, invoke_time, str, now) ==
  IF invoke_time.given /\ ~invoke_time.parses
  THEN [ok |-> FALSE, to_book_list |-> << >>, booking_date |-> -1]
  ELSE LET reference_time == IF invoke_time.given THEN invoke_time.instant ELSE now
           target_booking_datetime ==
             TargetBookingDatetime(reference_time, ParseTargetTime(str))
           booking_datetime == target_booking_datetime + BookingLeadDays * DaySeconds
       IN [ok |-> TRUE,
           to_book_list |-> get_booking_list(booking_list_str, booking_datetime),
           booking_date |-> DateOf(booking_datetime)]

\* Result of prepare_booking_list_mode; ok = FALSE models "return None".
prepare_booking_list_mode(booking_list_str, invoke_time, str, now) ==
  IF invoke_time.given /\ ~invoke_time.parses
  THEN [ok |-> FALSE, to_book_list |-> << >>, booking_date |-> -1]
  ELSE LET reference_time == IF invoke_time.given THEN invoke_time.instant ELSE now
           target_booking_datetime ==
             TargetBookingDatetime(reference_time, ParseTargetTime(str))
           booking_datetime == target_booking_datetime + BookingLeadDays * DaySeconds
           list == get_booking_list(booking_list_str, booking_datetime)
       IN IF list = << >>
          THEN [ok |-> FALSE, to_book_list |-> << >>, booking_date |-> -1]
          ELSE [ok |-> TRUE, to_book_list |-> list,
                booking_date |-> DateOf(booking_datetime)]


-----------------------------------------------------------------------------
(* Manual mode and prepare_bookings *)

\* BOOKING_DATE_TIME: "MM/DD/YYYY HH:MM AM/PM" that rsplit cuts in three
\* parts, or text that it does not.
DateTimeStr(date, time) == [parses |-> TRUE, date |-> date, time |-> time]
BadDateTimeStr == [parses |-> FALSE, date |-> -1, time |-> NoText]

\* --booking-date-time on the command line (booking_date, booking_time)
NoCli == [given |-> FALSE, date |-> -1, time |-> NoText]
CliBooking(date, time) == [given |-> TRUE, date |-> date, time |-> time]

\* The single queue entry of manual mode is (None, booking_time); main reads
\* a two-element entry as an entry without court override.
prepare_manual_booking_mode(booking_date_time_str, cli) ==
  IF booking_date_time_str.parses
  THEN [ok |-> TRUE,
        to_book_list |-> << <<NoText,
                              IF cli.given THEN cli.time ELSE booking_date_time_str.time,
                              NoText>> >>,
        booking_date |-> IF cli.given THEN cli.date ELSE booking_date_time_str.date]
  ELSE [ok |-> FALSE, to_book_list |-> << >>, booking_date |-> -1]

NoTargetTime == [given |-> FALSE, str |-> BadTargetStr]

\* List mode is taken when BOOKING_LIST is non-empty and no booking date/time
\* came from the command line.
ListMode(e) == e.BOOKING_LIST # << >> /\ ~e.cli.given

\* Result of prepare_bookings: ok = FALSE models "return None"; the third
\* component is BOOKING_TARGET_TIME in list mode and None in manual mode.
prepare_bookings(e, now) ==
  IF ListMode(e)
  THEN LET result == prepare_booking_list_mode(e.BOOKING_LIST, e.invoke_time,
                                               e.BOOKING_TARGET_TIME, now)
       IN [ok |-> result.ok, to_book_list |-> result.to_book_list,
           booking_date |-> result.booking_date,
           target_time_str |-> IF result.ok
                               THEN [given |-> TRUE, str |-> e.BOOKING_TARGET_TIME]
                               ELSE NoTargetTime]
  ELSE LET result == prepare_manual_booking_mode(e.BOOKING_DATE_TIME, e.cli)
       IN [ok |-> result.ok, to_book_list |-> result.to_book_list,
           booking_date |-> result.booking_date,
           target_time_str |-> NoTargetTime]

-----------------------------------------------------------------------------
(* Slot Locator: the cell scan of book_court *)

\* One td[class*="rbm_"] cell in document order: whether it holds a slot div
\* (div.rbm_TimeSlotPanelSlotAvailable / div.rbm_TimeSlotPanelNoSlots; the
\* first one is the one query_selector returns), that div's onclick
\* attribute and inner text, and the inner text of the enclosing row.
Cell(has_div, onclick, div_text, row_text) ==
  [has_div |-> has_div, onclick |-> onclick, div_text |-> div_text,
   row_text |-> row_text]

\* CellIsBookingLink without the onclick test
CellIsBookingLink_AnyDiv(cell, court_name, start_time) ==
  /\ cell.has_div
  /\ Contains(cell.div_text, court_name)
  /\ Contains(cell.row_text, start_time)

\* The chain of "continue" tests a cell has to pass to become booking_link
CellIsBookingLink(cell, court_name, start_time) ==
  /\ cell.has_div
  /\ cell.onclick # NoText
  /\ Contains(cell.div_text, court_name)
  /\ Contains(cell.row_text, start_time)

\* The for loop over all_cells with its break: the index of the first cell
\* that passes, 0 when the loop ends with booking_link = None.
RECURSIVE ScanFrom(_, _, _, _)
ScanFrom(all_cells, i, court_name, start_time) ==
  IF i > Len(all_cells) THEN 0
  ELSE IF CellIsBookingLink(all_cells[i], court_name, start_time) THEN i
  ELSE ScanFrom(all_cells, i + 1, court_name, start_time)

ScanGrid(all_cells, court_name, start_time) ==
  ScanFrom(all_cells, 1, court_name, start_time)

NoScan == [ran |-> FALSE, grid |-> << >>, court |-> NoText, time |-> NoText,
           found |-> 0]


-----------------------------------------------------------------------------
(* book_court *)

\* A site-facing operation of the run, as recorded in events
Ev(op, date, time, court) == [op |-> op, date |-> date, time |-> time, court |-> court]
Op(op) == Ev(op, -1, NoText, NoText)

\* safety_mode = os.getenv('SAFETY_MODE', 'True').lower() != 'false'
SafetyText_True  == <<"T","r","u","e">>
SafetyText_false == <<"f","a","l","s","e">>
SafetyText_FALSE == <<"F","A","L","S","E">>
\* SafetyModeOn that is on only for the text 'true'
SafetyModeOn_TrueOnly(text) == Lower(text) = Lower(SafetyText_True)

SafetyModeOn(text) == Lower(text) # SafetyText_false

\* The page as book_court meets it: the state of #txtDate ("ok", "missing",
\* "hidden", or "raises" when entering the date throws) and the grid that is
\* rendered after the date has been entered.
Page(date_field, grid) == [date_field |-> date_field, grid |-> grid]

\* The booking dialog as the site presents it after the click on a slot:
\*   slot_click  "ok" | "raises"            booking_link.click()
\*   form        "ok" | "raises"            the evaluate calls that read the frame
\*   select      "absent" | "sets" | "no_option" | "raises"
\*               | "hidden_sets" | "hidden_no_option"
\*                                          the select that lists "... Minutes":
\*                                          a visible one, or none visible and a
\*                                          hidden one
\*   combo       "sets" | "fails"           the Telerik drpDuration combo box
\*                                          (fails: no input, no API or no item)
\*   lbBook      "absent" | "clicks" | "click_raises"
\*                                          the element found by [id*="lbBook"]
\*   postback    "absent" | "clicks" | "click_fails" | "raises"
\*                                          the elements whose onclick holds
\*                                          __doPostBack and lbBook, and the
\*                                          scripted click on the chosen one
\*   close       "clicks" | "none" | "raises"
\*                                          the close control of the confirmation
Dialog(slot_click, form, select, combo, lbBook, postback, close) ==
  [slot_click |-> slot_click, form |-> form, select |-> select, combo |-> combo,
   lbBook |-> lbBook, postback |-> postback, close |-> close]

DialogCompletes == Dialog("ok", "ok", "sets", "sets", "clicks", "clicks", "clicks")
DialogSlotClickRaises ==
  Dialog("raises", "ok", "sets", "sets", "clicks", "clicks", "clicks")

\* The duration step: duration_idx is the first visible select that lists
\* minutes, else the first select that lists minutes at all; only when there
\* is no such select is the Telerik combo box tried.  "set" is whether the
\* duration was set; every other end of the step is only logged.
DurationStep(dialog) ==
  CASE dialog.select \in {"sets", "no_option", "raises"} ->
         [control |-> "use_select", set |-> dialog.select = "sets"]
    [] dialog.select \in {"hidden_sets", "hidden_no_option"} ->
         [control |-> "use_hidden_select", set |-> dialog.select = "hidden_sets"]
    [] OTHER ->
         [control |-> "use_combo", set |-> dialog.combo = "sets"]

\* The submit step, as the strategies it consults and what they do.  The
\* element with an id that contains lbBook is looked for first; when it is
\* clicked the code goes on to the dismissal and returns ("returned").  When
\* it is absent, or its click throws, the elements with a __doPostBack/lbBook
\* onclick are collected ("raised" when that evaluate throws): the first of
\* them is the reservation button and is clicked by script.  The text
\* strategies that follow look through the same collection, so they are
\* reached only when it is empty and then find nothing.  Whether a control
\* was found and whether the click worked is only logged ("fell_through").
SubmitStep(dialog) ==
  LET by_id == << "try_id" >> \o
               (IF dialog.lbBook = "absent" THEN << >> ELSE << "found_by_id" >>)
  IN IF dialog.lbBook = "clicks"
     THEN [end |-> "returned", clicked |-> TRUE, ops |-> by_id]
     ELSE IF dialog.postback = "raises"
     THEN [end |-> "raised", clicked |-> FALSE, ops |-> by_id \o << "try_onclick" >>]
     ELSE IF dialog.postback = "absent"
     THEN [end |-> "fell_through", clicked |-> FALSE,
           ops |-> by_id \o << "try_onclick", "try_text" >>]
     ELSE [end |-> "fell_through", clicked |-> (dialog.postback = "clicks"),
           ops |-> by_id \o << "try_onclick", "found_by_onclick" >>]

\* The dismissal of the confirmation: a close control is clicked, or none is
\* found (or visible), or the queries and clicks throw; the exceptions are
\* swallowed per selector and the step ends with closed = False.
DismissStep(dialog) ==
  CASE dialog.close = "clicks" -> "close_click"
    [] dialog.close = "none" -> "close_not_found"
    [] OTHER -> "close_raised"

\* TransactionResult that asks for a closed confirmation
TransactionResult_ClosedOnly(submit_end, closed) ==
  submit_end # "raised" /\ (submit_end = "returned" => closed)

\* The value book_court returns after the slot has been clicked: True at the
\* end of the dismissal and at the end of the fall-through path, False from
\* the except handler.
TransactionResult(submit_end, closed) == submit_end # "raised"

\* Transaction that looks for the submit control before it sets the duration
Transaction_SubmitFirst(dialog) ==
  LET duration == DurationStep(dialog)
      submit == SubmitStep(dialog)
      dismiss == DismissStep(dialog)
  IN [result |-> TransactionResult(submit.end, dismiss = "close_click"),
      ops |-> << "slot_click", "dialog_opened" >> \o submit.ops
              \o (IF submit.clicked THEN << "submit_click" >> ELSE << >>)
              \o << duration.control,
                    IF duration.set THEN "duration_set" ELSE "duration_not_set" >>
              \o (IF submit.end = "returned" THEN << dismiss >> ELSE << >>)]

\* The else branch of the safety test: the click on the slot, the discovery
\* of the dialog's frame, the duration step, the submit step and, after a
\* click on the element found by id, the dismissal - as the operations done,
\* in order, and the value returned.  An exception outside the steps' own
\* try blocks ends the transaction in the except handler of book_court.
Transaction(dialog) ==
  IF dialog.slot_click = "raises"
  THEN [result |-> FALSE, ops |-> << "slot_click", "booking_error" >>]
  ELSE IF dialog.form = "raises"
  THEN [result |-> FALSE, ops |-> << "slot_click", "dialog_opened", "booking_error" >>]
  ELSE
    LET duration == DurationStep(dialog)
        submit == SubmitStep(dialog)
        dismiss == DismissStep(dialog)
        filled == << "slot_click", "dialog_opened", duration.control,
                     IF duration.set THEN "duration_set" ELSE "duration_not_set" >>
        submitted == filled \o submit.ops
                     \o (IF submit.clicked THEN << "submit_click" >> ELSE << >>)
    IN IF submit.end = "returned"
       THEN [result |-> TransactionResult(submit.end, dismiss = "close_click"),
             ops |-> submitted \o << dismiss >>]
       ELSE IF submit.end = "raised"
       THEN [result |-> TransactionResult(submit.end, FALSE),
             ops |-> submitted \o << "booking_error" >>]
       ELSE [result |-> TransactionResult(submit.end, FALSE), ops |-> submitted]

\* One call of book_court.  Every exception inside it is caught by its own
\* "except Exception", which returns False, so the call itself never raises.
book_court(page, date_str, start_time, court_name, safety_text, dialog) ==
  LET E(op) == Ev(op, date_str, start_time, court_name)
      call == << E("book_court") >>
      Return(result, evs, scan) ==
        [result |-> result, raised |-> FALSE, events |-> evs, scan |-> scan]
  IN IF page.date_field = "raises"
     THEN Return(FALSE, call \o << E("booking_error") >>, NoScan)
     ELSE IF page.date_field # "ok"
     THEN Return(FALSE, call \o << E("date_field_missing") >>, NoScan)
     ELSE
       LET found == ScanGrid(page.grid, court_name, start_time)
           scan == [ran |-> TRUE, grid |-> page.grid, court |-> court_name,
                    time |-> start_time, found |-> found]
           scanned == call \o << E("scan") >>
       IN IF found = 0
          THEN Return(FALSE, scanned \o << E("no_slot_found") >>, scan)
          ELSE IF SafetyModeOn(safety_text)
          THEN Return(TRUE, scanned, scan)
          ELSE
            LET txn == Transaction(dialog)
            IN Return(txn.result,
                      scanned \o [k \in 1..Len(txn.ops) |-> E(txn.ops[k])],
                      scan)

-----------------------------------------------------------------------------
(* main *)

\* CourtsToBook with the "both" test made on the text as written
CourtsToBook_CaseSensitive(court_override, COURT_NAME) ==
  IF court_override # NoText
  THEN IF court_override = BothLower
       THEN <<NorthCourt, SouthCourt>>
       ELSE <<court_override>>
  ELSE IF COURT_NAME = BothLower
       THEN <<NorthCourt, SouthCourt>>
       ELSE <<COURT_NAME>>

\* CourtsToBook that books South before North
CourtsToBook_SouthFirst(court_override, COURT_NAME) ==
  IF court_override # NoText
  THEN IF Lower(court_override) = BothLower
       THEN <<SouthCourt, NorthCourt>>
       ELSE <<court_override>>
  ELSE IF Lower(COURT_NAME) = BothLower
       THEN <<SouthCourt, NorthCourt>>
       ELSE <<COURT_NAME>>

\* courts_to_book of one queue entry
CourtsToBook(court_override, COURT_NAME) ==
  IF court_override # NoText
  THEN IF Lower(court_override) = BothLower
       THEN <<NorthCourt, SouthCourt>>
       ELSE <<court_override>>
  ELSE IF Lower(COURT_NAME) = BothLower
       THEN <<NorthCourt, SouthCourt>>
       ELSE <<COURT_NAME>>

\* The entry appended to booking_details after one book_court call
Detail(status, court, date, time, duration) ==
  [status |-> status, court |-> court, date |-> date, time |-> time,
   duration |-> duration]

NoSummary == [built |-> FALSE, time_slots |-> 0, courts_per_slot |-> 0,
              total_attempts |-> 0, successful |-> 0, failed |-> 0]

\* ShouldWait that looks at the target time string alone
ShouldWait_IgnoresInvokeTime(e, tts) == tts.given

\* The wait is taken only for a scheduled run: invoke_time given and a
\* target time string returned by prepare_bookings.
ShouldWait(e, tts) == e.invoke_time.given /\ tts.given


\* main up to the end of prepare_bookings: the credentials check, then the
\* queue, the booking date and the target time string.
Prepare ==
  /\ pc = "start"
  /\ IF ~env.creds
     THEN /\ pc' = "exit"
          /\ UNCHANGED <<to_book_list, BOOKING_DATE, target_time_str>>
     ELSE LET result == prepare_bookings(env, clock)
          IN IF ~result.ok
             THEN /\ pc' = "exit"
                  /\ UNCHANGED <<to_book_list, BOOKING_DATE, target_time_str>>
             ELSE /\ pc' = "setup"
                  /\ to_book_list' = result.to_book_list
                  /\ BOOKING_DATE' = result.booking_date
                  /\ target_time_str' = result.target_time_str
  /\ UNCHANGED <<venmoVars, lastLogin, env, clock, idx, court_idx, courts_to_book, successful_bookings,
                 failed_bookings, booking_details, events, booking_summary,
                 waiter, lastScan>>

\* await booking.setup(): the browser starts, or an exception reaches the
\* outer except of main.
Setup ==
  /\ pc = "setup"
  /\ \E ok \in BOOLEAN :
       /\ events' = Append(events, Op(IF ok THEN "setup" ELSE "setup_raised"))
       /\ pc' = IF ok THEN "login" ELSE "except"
  /\ UNCHANGED <<venmoVars, lastLogin, env, clock, to_book_list, BOOKING_DATE, target_time_str, idx,
                 court_idx, courts_to_book, successful_bookings, failed_bookings,
                 booking_details, booking_summary, waiter, lastScan>>

\* Number of username selectors, and of password selectors, login tries
LoginSelectors == 4

\* The login page as login meets it: whether page.goto works ("ok" or
\* "raises"), the username selectors and the password selectors (by their
\* position in username_selectors / password_selectors) that yield a field
\* within the timeout, whether one of the login_selectors yields a button, and
\* where the browser is after the click ("member" or still "login_page").
LoginPage(goto, username, password, button, lands) ==
  [goto |-> goto, username |-> username, password |-> password,
   button |-> button, lands |-> lands]

NoLogin == [ran |-> FALSE, page |-> LoginPage("ok", {}, {}, FALSE, "login_page"),
            username_selector |-> 0, password_selector |-> 0, result |-> FALSE]

\* FirstSelector that keeps the last selector that yields a field
FirstSelector_Last(matching) ==
  IF matching = {} THEN 0 ELSE CHOOSE k \in matching : \A j \in matching : j <= k

\* The for loop over a selector list with its break: the first selector that
\* yields a field, 0 when none does (the field stays None)
FirstSelector(matching) ==
  IF matching = {} THEN 0 ELSE CHOOSE k \in matching : \A j \in matching : k <= j

\* login() after the page.goto: the selectors chosen, the operations done and
\* the value returned
login(page) ==
  LET username_field == FirstSelector(page.username)
      password_field == FirstSelector(page.password)
      Return(result, ops) ==
        [result |-> result, ops |-> ops, username_selector |-> username_field,
         password_selector |-> password_field]
  IN IF username_field = 0 \/ password_field = 0
     THEN Return(FALSE, << "login_dump" >>)
     ELSE IF ~page.button
     THEN Return(FALSE, << "fill_credentials" >>)
     ELSE Return(page.lands # "login_page", << "fill_credentials", "login_click" >>)

\* Login after which main goes on to the navigation although login() was False
Login_IgnoresFailure ==
  /\ pc = "login"
  /\ \E outcome \in {"login_ok", "login_failed", "login_raised"} :
       /\ events' = Append(events, Op(outcome))
       /\ pc' = IF outcome = "login_raised" THEN "except" ELSE "navigate"
  /\ UNCHANGED <<venmoVars, lastLogin, env, clock, to_book_list, BOOKING_DATE, target_time_str, idx,
                 court_idx, courts_to_book, successful_bookings, failed_bookings,
                 booking_details, booking_summary, waiter, lastScan>>

\* await booking.login() on one of the given pages: True, False (main
\* returns), or an exception from the page.goto that precedes login's own try
\* block, which reaches the outer except of main.
LoginWith(pages) ==
  /\ pc = "login"
  /\ \E page \in pages :
       IF page.goto = "raises"
       THEN /\ events' = Append(events, Op("login_raised"))
            /\ lastLogin' = [NoLogin EXCEPT !.ran = TRUE, !.page = page]
            /\ pc' = "except"
       ELSE LET r == login(page)
            IN /\ events' = events \o [k \in 1..Len(r.ops) |-> Op(r.ops[k])]
                               \o << Op(IF r.result THEN "login_ok" ELSE "login_failed") >>
               /\ lastLogin' = [ran |-> TRUE, page |-> page,
                                username_selector |-> r.username_selector,
                                password_selector |-> r.password_selector,
                                result |-> r.result]
               /\ pc' = IF r.result THEN "navigate" ELSE "closing"
  /\ UNCHANGED <<venmoVars, env, clock, to_book_list, BOOKING_DATE, target_time_str, idx,
                 court_idx, courts_to_book, successful_bookings, failed_bookings,
                 booking_details, booking_summary, waiter, lastScan>>

\* Login pages the run may meet: one that logs in, one without login fields
\* and one that does not load
RunLoginPages ==
  { LoginPage("ok", 1..LoginSelectors, 1..LoginSelectors, TRUE, "member"),
    LoginPage("ok", {}, {}, FALSE, "login_page"),
    LoginPage("raises", {}, {}, FALSE, "login_page") }

Login == LoginWith(RunLoginPages)

\* await booking.find_booking_page(): True, or False (main returns)
FindBookingPage ==
  /\ pc = "navigate"
  /\ \E ok \in BOOLEAN :
       /\ events' = Append(events, Op(IF ok THEN "calendar_opened" ELSE "calendar_failed"))
       /\ pc' = IF ok THEN "gate" ELSE "closing"
  /\ UNCHANGED <<venmoVars, lastLogin, env, clock, to_book_list, BOOKING_DATE, target_time_str, idx,
                 court_idx, courts_to_book, successful_bookings, failed_bookings,
                 booking_details, booking_summary, waiter, lastScan>>

\* Seconds that may have passed between the start of the run and the call
\* of the waiter (browser start, login, navigation).
RunElapsed == {5, 400}

\* The "if invoke_time and target_time_str is not None" arm: the waiter is
\* called with its default grace period and the run sleeps.
Wait ==
  /\ pc = "gate"
  /\ ShouldWait(env, target_time_str)
  /\ \E elapsed \in RunElapsed :
       LET w == wait_until_booking_time(clock + elapsed, target_time_str.str,
                                        DefaultGraceMinutes)
       IN /\ waiter' = w
          /\ clock' = clock + elapsed + w.slept
  /\ events' = Append(events, Op("wait"))
  /\ pc' = "reload"
  /\ UNCHANGED <<venmoVars, lastLogin, env, to_book_list, BOOKING_DATE, target_time_str, idx, court_idx,
                 courts_to_book, successful_bookings, failed_bookings,
                 booking_details, booking_summary, lastScan>>

\* The other arms: no wait, straight to the booking loop.
SkipWait ==
  /\ pc = "gate"
  /\ ~ShouldWait(env, target_time_str)
  /\ pc' = "loop"
  /\ UNCHANGED <<venmoVars, lastLogin, env, clock, to_book_list, BOOKING_DATE, target_time_str, idx,
                 court_idx, courts_to_book, successful_bookings, failed_bookings,
                 booking_details, events, booking_summary, waiter, lastScan>>

\* Reload that goes on to the loop without reloading the page
Reload_Skipped ==
  /\ pc = "reload"
  /\ pc' = "loop"
  /\ UNCHANGED <<venmoVars, lastLogin, env, clock, to_book_list, BOOKING_DATE, target_time_str, idx,
                 court_idx, courts_to_book, successful_bookings, failed_bookings,
                 booking_details, events, booking_summary, waiter, lastScan>>

\* await booking.page.reload(wait_until='networkidle'): done, or an exception
\* (a timeout) that reaches the outer except of main.
Reload ==
  /\ pc = "reload"
  /\ \E ok \in BOOLEAN :
       /\ events' = Append(events, Op(IF ok THEN "reload" ELSE "reload_raised"))
       /\ pc' = IF ok THEN "loop" ELSE "except"
  /\ UNCHANGED <<venmoVars, lastLogin, env, clock, to_book_list, BOOKING_DATE, target_time_str, idx,
                 court_idx, courts_to_book, successful_bookings, failed_bookings,
                 booking_details, booking_summary, waiter, lastScan>>


OnclickText == <<"b","o","o","k","(",")">>

\* A rendered row: the time label followed by the text of its slot
RowText(label, div_text) == label \o <<" ">> \o div_text

AvailableCell(label, court) == Cell(TRUE, OnclickText, court, RowText(label, court))
TakenCell(label, court)     == Cell(TRUE, NoText, court, RowText(label, court))
PlainCell(label)            == Cell(FALSE, NoText, NoText, label)

\* Pages the run may meet at a book_court call
RunPages ==
  { Page("ok", << PlainCell(T_12PM), TakenCell(T_12PM, NorthCourt),
                  AvailableCell(T_2PM, NorthCourt), AvailableCell(T_2PM, SouthCourt) >>),
    Page("ok", << AvailableCell(T_12PM, SouthCourt), TakenCell(T_2PM, SouthCourt) >>),
    Page("missing", << >>) }

\* Dialogs the run may meet after a click on a slot
RunDialogs == { DialogCompletes, DialogSlotClickRaises }

\* The status main records for one book_court call: 'error' is the status of
\* the except branch around the call.
AttemptStatus(r) ==
  IF r.raised THEN "error" ELSE IF r.result THEN "success" ELSE "failed"

\* AfterAttempt that leaves the loop at the first attempt that fails
AfterAttempt_StopsOnFailure(status) ==
  IF status = "success" THEN "loop" ELSE "closing"

\* Where main stands after one attempt has been recorded: neither branch of
\* the loop body breaks or returns, so the loops go on whatever the status.
AfterAttempt(status) == "loop"

\* BookCourtWith that appends the entry of a failed attempt without counting it
BookCourtWith_FailureUncounted(pages, dialogs) ==
  /\ pc = "loop"
  /\ idx <= Len(to_book_list)
  /\ LET booking_entry == to_book_list[idx]
         time_str == booking_entry[2]
         courts == CourtsToBook(booking_entry[3], env.COURT_NAME)
         court == courts[court_idx]
     IN \E page \in pages, dialog \in dialogs :
          LET r == book_court(page, BOOKING_DATE, time_str, court,
                              env.SAFETY_MODE, dialog)
              status == AttemptStatus(r)
          IN /\ events' = events \o r.events
             /\ lastScan' = r.scan
             /\ courts_to_book' = courts
             /\ successful_bookings' =
                  successful_bookings + (IF status = "success" THEN 1 ELSE 0)
             /\ failed_bookings' = failed_bookings
             /\ booking_details' =
                  Append(booking_details,
                         Detail(status, court, BOOKING_DATE, time_str,
                                env.BOOKING_DURATION))
             /\ IF court_idx < Len(courts)
                THEN /\ court_idx' = court_idx + 1
                     /\ idx' = idx
                ELSE /\ court_idx' = 1
                     /\ idx' = idx + 1
             /\ pc' = AfterAttempt(status)
  /\ UNCHANGED <<venmoVars, lastLogin, env, clock, to_book_list, BOOKING_DATE, target_time_str,
                 booking_summary, waiter>>

\* One iteration of the inner loop of main: courts_to_book of the current
\* entry, one book_court call for the current court, the counters and
\* booking_details, then the step to the next court or the next entry.  The
\* page and the dialog the call meets are drawn from pages and dialogs.
BookCourtWith(pages, dialogs) ==
  /\ pc = "loop"
  /\ idx <= Len(to_book_list)
  /\ LET booking_entry == to_book_list[idx]
         time_str == booking_entry[2]
         courts == CourtsToBook(booking_entry[3], env.COURT_NAME)
         court == courts[court_idx]
     IN \E page \in pages, dialog \in dialogs :
          LET r == book_court(page, BOOKING_DATE, time_str, court,
                              env.SAFETY_MODE, dialog)
              status == AttemptStatus(r)
          IN /\ events' = events \o r.events
             /\ lastScan' = r.scan
             /\ courts_to_book' = courts
             /\ successful_bookings' =
                  successful_bookings + (IF status = "success" THEN 1 ELSE 0)
             /\ failed_bookings' =
                  failed_bookings + (IF status = "success" THEN 0 ELSE 1)
             /\ booking_details' =
                  Append(booking_details,
                         Detail(status, court, BOOKING_DATE, time_str,
                                env.BOOKING_DURATION))
             /\ IF court_idx < Len(courts)
                THEN /\ court_idx' = court_idx + 1
                     /\ idx' = idx
                ELSE /\ court_idx' = 1
                     /\ idx' = idx + 1
             /\ pc' = AfterAttempt(status)
  /\ UNCHANGED <<venmoVars, lastLogin, env, clock, to_book_list, BOOKING_DATE, target_time_str,
                 booking_summary, waiter>>

BookCourt == BookCourtWith(RunPages, RunDialogs)

\* After the loop: booking_summary is built and handed to the notification.
Summary ==
  /\ pc = "loop"
  /\ idx > Len(to_book_list)
  /\ booking_summary' =
       [built |-> TRUE,
        time_slots |-> Len(to_book_list),
        courts_per_slot |-> Len(courts_to_book),
        total_attempts |-> Len(to_book_list) * Len(courts_to_book),
        successful |-> successful_bookings,
        failed |-> failed_bookings]
  /\ events' = Append(events, Op("notify"))
  /\ pc' = "closing"
  /\ UNCHANGED <<venmoVars, lastLogin, env, clock, to_book_list, BOOKING_DATE, target_time_str, idx,
                 court_idx, courts_to_book, successful_bookings, failed_bookings,
                 booking_details, waiter, lastScan>>

\* The outer "except Exception" of main
Except ==
  /\ pc = "except"
  /\ events' = Append(events, Op("error_screenshot"))
  /\ pc' = "closing"
  /\ UNCHANGED <<venmoVars, lastLogin, env, clock, to_book_list, BOOKING_DATE, target_time_str, idx,
                 court_idx, courts_to_book, successful_bookings, failed_bookings,
                 booking_details, booking_summary, waiter, lastScan>>

\* The "finally: await booking.close()" of main
Close ==
  /\ pc = "closing"
  /\ events' = Append(events, Op("close"))
  /\ pc' = "done"
  /\ UNCHANGED <<venmoVars, lastLogin, env, clock, to_book_list, BOOKING_DATE, target_time_str, idx,
                 court_idx, courts_to_book, successful_bookings, failed_bookings,
                 booking_details, booking_summary, waiter, lastScan>>


-----------------------------------------------------------------------------
(* Inputs *)

SeqsUpTo(S, n) == UNION { [1..k -> S] : k \in 0..n }

W_Tuesday   == <<"T","u","e","s","d","a","y">>
W_tuesday   == <<"t","u","e","s","d","a","y">>
W_WEDNESDAY == <<"W","E","D","N","E","S","D","A","Y">>
W_Wednesday == <<"W","e","d","n","e","s","d","a","y">>
W_Funday    == <<"F","u","n","d","a","y">>

\* Entries a BOOKING_LIST is made of: both weekdays in several letter cases,
\* every kind of court part, a word that is no day name, an entry with no time
RuleEntries ==
  { Entry(W_Tuesday, T_2PM, BothTitle),
    Entry(W_tuesday, T_12PM, NoText),
    Entry(W_WEDNESDAY, T_2PM, SouthCourt),
    Entry(W_Wednesday, T_12PM, BothLower),
    Entry(W_Funday, T_2PM, NorthCourt),
    Entry(W_Tuesday, NoText, NoText) }

BookingLists == SeqsUpTo(RuleEntries, MaxRules)

\* The lists of the full run are made of the well-formed entries and name
\* each rule once
RunEntries == { entry \in RuleEntries : entry.time # NoText /\ entry.day # W_Funday }

RunBookingLists ==
  { list \in SeqsUpTo(RunEntries, MaxRules) :
      \A i, j \in 1..Len(list) : list[i] = list[j] => i = j }

\* Instant of a clock time on a day of the first week (0 = Monday)
At(day, h, m, s) == day * DaySeconds + HMS(h, m, s)

\* The rest of the environment: credentials, COURT_NAME, SAFETY_MODE and
\* BOOKING_DURATION
Settings ==
  { [creds |-> TRUE,  COURT_NAME |-> NorthCourt, SAFETY_MODE |-> SafetyText_True,  BOOKING_DURATION |-> 120],
    [creds |-> TRUE,  COURT_NAME |-> NorthCourt, SAFETY_MODE |-> SafetyText_false, BOOKING_DURATION |-> 120],
    [creds |-> TRUE,  COURT_NAME |-> BothTitle,  SAFETY_MODE |-> SafetyText_FALSE, BOOKING_DURATION |-> 60] }

NoCredentials == [creds |-> FALSE, COURT_NAME |-> NorthCourt,
                  SAFETY_MODE |-> SafetyText_True, BOOKING_DURATION |-> 120]

DefaultSettings == CHOOSE st \in Settings : st.creds /\ st.SAFETY_MODE = SafetyText_True

DefaultDateTime == DateTimeStr(15, <<"1","0",":","0","0"," ","A","M">>)

Env(list, target, invoke, cli, datetime, st) ==
  [BOOKING_LIST |-> list, BOOKING_TARGET_TIME |-> target, invoke_time |-> invoke,
   cli |-> cli, BOOKING_DATE_TIME |-> datetime, creds |-> st.creds,
   COURT_NAME |-> st.COURT_NAME, SAFETY_MODE |-> st.SAFETY_MODE,
   BOOKING_DURATION |-> st.BOOKING_DURATION]

-----------------------------------------------------------------------------
(* The Venmo sync: venmo_email_trigger and sync_venmo_to_sheet.  One        *)
(* invocation runs per Pub/Sub message; invocations share the Payment Log   *)
(* sheet and nothing else, and each call of the Sheets or Venmo API is one  *)
(* step.                                                                    *)

MaxSyncs == 2       \* invocations of venmo_email_trigger explored
MaxTxns == 2        \* Venmo transactions explored

\* limit of the transactions fetched by one invocation
SyncLimit == 50

SyncIds == 1..MaxSyncs

\* What the loop of sync_venmo_to_sheet does with a transaction that is not
\* yet known: "incoming" from a payer found in the main sheet, "unmatched"
\* from a payer who is not, "other" for outgoing payments and transactions
\* without actor, target or amount.
TxnKinds == {"incoming", "unmatched", "other"}

Txn(id, kind) == [id |-> id, kind |-> kind]

\* An invocation that has not been triggered
NoSync == [pc |-> "idle", existing_ids |-> {}, transactions |-> << >>, pos |-> 1,
           payments_recorded |-> 0, payments_skipped |-> 0,
           payments_unmatched |-> 0]

\* get_existing_transaction_ids: the set of the transaction IDs of the rows
get_existing_transaction_ids(rows) == { rows[k] : k \in 1..Len(rows) }

\* get_user_transactions(limit): the most recent transactions, newest first
get_user_transactions(feed, limit) ==
  LET n == IF Len(feed) < limit THEN Len(feed) ELSE limit
  IN [k \in 1..n |-> feed[Len(feed) + 1 - k]]

\* record_payment for a payer found in the main sheet: False when the ID is
\* in existing_ids or append_to_sheet returns None, otherwise one row is
\* appended to the Payment Log and the result is True.
record_payment(rows, transaction_id, existing_ids, append_ok) ==
  IF transaction_id \in existing_ids
  THEN [success |-> FALSE, rows |-> rows]
  ELSE IF ~append_ok
  THEN [success |-> FALSE, rows |-> rows]
  ELSE [success |-> TRUE, rows |-> Append(rows, transaction_id)]

\* A payment or other transaction appears on the Venmo account; IDs are
\* issued once, in increasing order.
Arrive ==
  /\ Len(venmo_feed) < MaxTxns
  /\ \E kind \in TxnKinds :
       venmo_feed' = Append(venmo_feed, Txn(Len(venmo_feed) + 1, kind))
  /\ UNCHANGED <<bookingVars, payment_log, syncs>>

\* venmo_email_trigger up to the connection to Venmo and to the sheets: the
\* configuration is validated and sync_venmo_to_sheet(limit=50,
\* dry_run=False) starts, or an exception ends the invocation.
Trigger(i) ==
  /\ syncs[i].pc = "idle"
  /\ \E ok \in BOOLEAN :
       syncs' = [syncs EXCEPT ![i].pc = IF ok THEN "read_log" ELSE "raised"]
  /\ UNCHANGED <<bookingVars, payment_log, venmo_feed>>

\* existing_ids = get_existing_transaction_ids(...): one read of the sheet
ReadExisting(i) ==
  /\ syncs[i].pc = "read_log"
  /\ syncs' = [syncs EXCEPT ![i].pc = "fetch",
                            ![i].existing_ids = get_existing_transaction_ids(payment_log)]
  /\ UNCHANGED <<bookingVars, payment_log, venmo_feed>>

\* transactions = client.user.get_user_transactions(...): the list, an empty
\* list (return (0, 0, 0)), or an exception that is raised again
Fetch(i) ==
  /\ syncs[i].pc = "fetch"
  /\ \E ok \in BOOLEAN :
       IF ~ok
       THEN syncs' = [syncs EXCEPT ![i].pc = "raised"]
       ELSE LET transactions == get_user_transactions(venmo_feed, SyncLimit)
            IN syncs' = [syncs EXCEPT ![i].transactions = transactions,
                                      ![i].pos = 1,
                                      ![i].pc = IF transactions = << >>
                                                THEN "done" ELSE "process"]
  /\ UNCHANGED <<bookingVars, payment_log, venmo_feed>>

\* One iteration of "for txn in transactions"
Process(i) ==
  /\ syncs[i].pc = "process"
  /\ syncs[i].pos <= Len(syncs[i].transactions)
  /\ LET sync == syncs[i]
         txn == sync.transactions[sync.pos]
         next == [sync EXCEPT !.pos = sync.pos + 1]
     IN IF txn.id \in sync.existing_ids
        THEN /\ syncs' = [syncs EXCEPT ![i] =
                            [next EXCEPT !.payments_skipped = sync.payments_skipped + 1]]
             /\ UNCHANGED payment_log
        ELSE IF txn.kind = "other"
        THEN /\ syncs' = [syncs EXCEPT ![i] = next]
             /\ UNCHANGED payment_log
        ELSE IF txn.kind = "unmatched"
        THEN /\ syncs' = [syncs EXCEPT ![i] =
                            [next EXCEPT !.payments_unmatched = sync.payments_unmatched + 1]]
             /\ UNCHANGED payment_log
        ELSE \E append_ok \in BOOLEAN :
               LET r == record_payment(payment_log, txn.id, sync.existing_ids, append_ok)
               IN /\ payment_log' = r.rows
                  /\ syncs' = [syncs EXCEPT ![i] =
                                 IF r.success
                                 THEN [next EXCEPT
                                         !.payments_recorded = sync.payments_recorded + 1,
                                         !.existing_ids = sync.existing_ids \cup {txn.id}]
                                 ELSE [next EXCEPT
                                         !.payments_skipped = sync.payments_skipped + 1]]
  /\ UNCHANGED <<bookingVars, venmo_feed>>

\* The end of the loop: the summary is printed and the counts are returned
Finish(i) ==
  /\ syncs[i].pc = "process"
  /\ syncs[i].pos > Len(syncs[i].transactions)
  /\ syncs' = [syncs EXCEPT ![i].pc = "done"]
  /\ UNCHANGED <<bookingVars, payment_log, venmo_feed>>

\* The state at the start of main, for environment e at instant now
InitWith(e, now) ==
  /\ pc = "start"
  /\ env = e
  /\ clock = now
  /\ to_book_list = << >>
  /\ BOOKING_DATE = -1
  /\ target_time_str = NoTargetTime
  /\ idx = 1
  /\ court_idx = 1
  /\ courts_to_book = << >>
  /\ successful_bookings = 0
  /\ failed_bookings = 0
  /\ booking_details = << >>
  /\ events = << >>
  /\ booking_summary = NoSummary
  /\ waiter = NoWait
  /\ lastScan = NoScan
  /\ lastLogin = NoLogin
  /\ payment_log = << >>
  /\ venmo_feed = << >>
  /\ syncs = [i \in SyncIds |-> NoSync]

\* --invoke-time as the scheduler passes it: absent, the current time, or
\* text that does not parse
InvokeTimes(now) == {NoInvokeTime, InvokeAt(now), BadInvokeTime}

-----------------------------------------------------------------------------
(* The run: main from its first line to the closing of the browser *)

RunClocks == { At(1, 12, 0, 0), At(1, 23, 55, 0) }
RunTargets == { TargetStr(0, 0, 15) }

Init ==
  \/ \E list \in RunBookingLists \ {<< >>}, now \in RunClocks, target \in RunTargets,
        st \in Settings :
       \E invoke \in InvokeTimes(now) :
          InitWith(Env(list, target, invoke, NoCli, DefaultDateTime, st), now)
  \/ \E list \in {<< >>, << Entry(W_Tuesday, T_2PM, BothTitle) >>},
        cli \in {NoCli, CliBooking(20, T_7PM)},
        datetime \in {DefaultDateTime, BadDateTimeStr},
        st \in Settings \cup {NoCredentials} :
       \E invoke \in {NoInvokeTime, InvokeAt(At(1, 12, 0, 0))} :
          /\ list = << >> \/ cli.given
          /\ InitWith(Env(list, TargetStr(0, 0, 15), invoke, cli, datetime, st),
                      At(1, 12, 0, 0))

Next ==
  \/ Prepare
  \/ Setup
  \/ Login
  \/ FindBookingPage
  \/ Wait
  \/ SkipWait
  \/ Reload
  \/ BookCourt
  \/ Summary
  \/ Except
  \/ Close

Spec == Init /\ [][Next]_vars


-----------------------------------------------------------------------------
(* The Schedule Expander on its own: prepare_bookings in list mode, for     *)
(* every weekday of the reference instant                                   *)

ExpandClockTimes == { HMS(0, 0, 20), HMS(11, 59, 0), HMS(12, 0, 15), HMS(12, 5, 0),
                      HMS(23, 55, 0) }
ExpandClocks == { day * DaySeconds + t : day \in 0..6, t \in ExpandClockTimes }
ExpandTargets == { TargetStr(0, 0, 15), TargetStr(12, 0, 0), TargetStr(23, 58, 0),
                   BadTargetStr }

InitExpand ==
  \E list \in BookingLists \ {<< >>}, now \in ExpandClocks, target \in ExpandTargets :
     \E invoke \in InvokeTimes(now) :
        InitWith(Env(list, target, invoke, NoCli, DefaultDateTime, DefaultSettings), now)

NextExpand == Prepare

SpecExpand == InitExpand /\ [][NextExpand]_vars

-----------------------------------------------------------------------------
(* The Release-Time Waiter on its own *)

WaitTargets == { TargetStr(0, 0, 15), TargetStr(0, 30, 0), TargetStr(12, 0, 0),
                 TargetStr(23, 30, 0), BadTargetStr }

\* Distances from today's target at which the waiter changes behaviour, and
\* one second either side of them
WaitOffsets == { 0, 1, 180, 599, 600, 601, 3600, 5399, 5400, 5401, 43199, 43200,
                 43201, 82800 }

WaitClockTimes ==
  { (ParseTargetTime(t) + d) % DaySeconds : t \in WaitTargets, d \in WaitOffsets }
  \cup { (ParseTargetTime(t) + DaySeconds - d) % DaySeconds :
           t \in WaitTargets, d \in WaitOffsets }
  \cup { 1800 * k : k \in 0..47 }

\* grace_period_minutes: the default that main uses, and a longer one
WaitGraces == { DefaultGraceMinutes, 90 }

InitWait ==
  \E t \in WaitClockTimes, target \in WaitTargets :
     InitWith(Env(<< >>, target, InvokeAt(At(1, 0, 0, 0) + t), NoCli,
                  DefaultDateTime, DefaultSettings),
              At(1, 0, 0, 0) + t)

\* One call wait_until_booking_time(target_time_str, grace_period_minutes)
WaitCall(grace) ==
  /\ pc = "start"
  /\ LET w == wait_until_booking_time(clock, env.BOOKING_TARGET_TIME, grace)
     IN /\ waiter' = w
        /\ clock' = clock + w.slept
  /\ pc' = "waited"
  /\ UNCHANGED <<venmoVars, lastLogin, env, to_book_list, BOOKING_DATE, target_time_str, idx, court_idx,
                 courts_to_book, successful_bookings, failed_bookings,
                 booking_details, events, booking_summary, lastScan>>

NextWait == \E grace \in WaitGraces : WaitCall(grace)

SpecWait == InitWait /\ [][NextWait]_vars

-----------------------------------------------------------------------------
(* The slot scan on its own: book_court on every small grid *)

ScanCourts == { NorthCourt, SouthCourt }
ScanTimes == { T_2PM, T_12PM }

CellKinds ==
  { PlainCell(T_12PM) }
  \cup { AvailableCell(label, court) : label \in ScanTimes, court \in ScanCourts }
  \cup { TakenCell(label, court) : label \in ScanTimes, court \in ScanCourts }

Grids == SeqsUpTo(CellKinds, MaxCells)

\* Before the call, lastScan holds the grid the page will render and the
\* court and time that are going to be asked for.
InitLocate ==
  \E grid \in Grids, court \in ScanCourts, time \in ScanTimes :
     /\ pc = "start"
     /\ env = Env(<< >>, BadTargetStr, NoInvokeTime, NoCli, DefaultDateTime,
                  DefaultSettings)
     /\ clock = 0
     /\ to_book_list = << <<NoText, time, court>> >>
     /\ BOOKING_DATE = 8
     /\ target_time_str = NoTargetTime
     /\ idx = 1
     /\ court_idx = 1
     /\ courts_to_book = << >>
     /\ successful_bookings = 0
     /\ failed_bookings = 0
     /\ booking_details = << >>
     /\ events = << >>
     /\ booking_summary = NoSummary
     /\ waiter = NoWait
     /\ lastScan = [ran |-> FALSE, grid |-> grid, court |-> court, time |-> time,
                    found |-> 0]
     /\ lastLogin = NoLogin
     /\ payment_log = << >>
     /\ venmo_feed = << >>
     /\ syncs = [i \in SyncIds |-> NoSync]

\* One call book_court(date, time, court) on a page whose date field works
LocateCall ==
  /\ pc = "start"
  /\ LET r == book_court(Page("ok", lastScan.grid), BOOKING_DATE, lastScan.time,
                         lastScan.court, env.SAFETY_MODE, DialogCompletes)
     IN /\ lastScan' = r.scan
        /\ events' = r.events
        /\ booking_details' =
             << Detail(AttemptStatus(r), lastScan.court,
                       BOOKING_DATE, lastScan.time, env.BOOKING_DURATION) >>
  /\ pc' = "located"
  /\ UNCHANGED <<venmoVars, lastLogin, env, clock, to_book_list, BOOKING_DATE, target_time_str, idx,
                 court_idx, courts_to_book, successful_bookings, failed_bookings,
                 booking_summary, waiter>>

NextLocate == LocateCall

SpecLocate == InitLocate /\ [][NextLocate]_vars


-----------------------------------------------------------------------------
(* The booking dialog on its own: a manual-mode run (BOOKING_DATE_TIME) that  *)
(* meets every page and every dialog at its book_court calls                  *)

SafetyText_False == <<"F","a","l","s","e">>
SafetyText_no    == <<"n","o">>

DialogSettings ==
  { [creds |-> TRUE, COURT_NAME |-> NorthCourt, SAFETY_MODE |-> text,
     BOOKING_DURATION |-> 60] :
       text \in { SafetyText_True, SafetyText_no, SafetyText_false,
                  SafetyText_False, SafetyText_FALSE } }
  \cup { [creds |-> TRUE, COURT_NAME |-> BothLower, SAFETY_MODE |-> text,
          BOOKING_DURATION |-> 120] : text \in { SafetyText_True, SafetyText_false } }

DialogTime == DefaultDateTime.time

DialogPages ==
  { Page("ok", << AvailableCell(DialogTime, NorthCourt),
                  AvailableCell(DialogTime, SouthCourt) >>),
    Page("ok", << TakenCell(DialogTime, NorthCourt),
                  AvailableCell(DialogTime, SouthCourt) >>),
    Page("missing", << >>),
    Page("hidden", << >>),
    Page("raises", << >>) }

\* The dialogs met: every duration control against a dialog with and without
\* the element found by id; every submit and close control of a dialog whose
\* duration select works; and the two places where an exception ends the
\* transaction early.
Dialogs ==
  { Dialog("ok", "ok", select, combo, lbBook, "absent", "clicks") :
      select \in {"absent", "sets", "no_option", "raises", "hidden_sets",
                  "hidden_no_option"},
      combo \in {"sets", "fails"},
      lbBook \in {"absent", "clicks"} }
  \cup
  { Dialog("ok", "ok", "sets", "sets", lbBook, postback, close) :
      lbBook \in {"absent", "clicks", "click_raises"},
      postback \in {"absent", "clicks", "click_fails", "raises"},
      close \in {"clicks", "none", "raises"} }
  \cup
  { Dialog(slot_click, form, "sets", "sets", "clicks", "clicks", "clicks") :
      slot_click \in {"ok", "raises"}, form \in {"ok", "raises"} }

InitDialog ==
  \E st \in DialogSettings :
     InitWith(Env(<< >>, BadTargetStr, NoInvokeTime, NoCli, DefaultDateTime, st),
              At(1, 12, 0, 0))

BookCourtDialog == BookCourtWith(DialogPages, Dialogs)

NextDialog ==
  \/ Prepare
  \/ Setup
  \/ Login
  \/ FindBookingPage
  \/ SkipWait
  \/ BookCourtDialog
  \/ Summary
  \/ Except
  \/ Close

SpecDialog == InitDialog /\ [][NextDialog]_vars

-----------------------------------------------------------------------------
(* login on its own: a manual-mode run that meets every login page           *)

LoginPages ==
  { LoginPage("ok", username, password, button, lands) :
      username \in SUBSET (1..LoginSelectors),
      password \in SUBSET (1..LoginSelectors),
      button \in BOOLEAN,
      lands \in {"member", "login_page"} }
  \cup { LoginPage("raises", {}, {}, FALSE, "login_page") }

InitLogin ==
  InitWith(Env(<< >>, BadTargetStr, NoInvokeTime, NoCli, DefaultDateTime,
               DefaultSettings),
           At(1, 12, 0, 0))

LoginAnyPage == LoginWith(LoginPages)

NextLogin ==
  \/ Prepare
  \/ Setup
  \/ LoginAnyPage
  \/ FindBookingPage
  \/ SkipWait
  \/ BookCourt
  \/ Summary
  \/ Except
  \/ Close

SpecLogin == InitLogin /\ [][NextLogin]_vars

-----------------------------------------------------------------------------
(* The Venmo sync on its own: transactions arrive and every Pub/Sub message *)
(* starts an invocation, whatever the others are doing                      *)

InitVenmo ==
  InitWith(Env(<< >>, BadTargetStr, NoInvokeTime, NoCli, DefaultDateTime,
               DefaultSettings),
           At(1, 12, 0, 0))

NextVenmo ==
  \/ Arrive
  \/ \E i \in SyncIds : Trigger(i)
  \/ \E i \in SyncIds : ReadExisting(i)
  \/ \E i \in SyncIds : Fetch(i)
  \/ \E i \in SyncIds : Process(i)
  \/ \E i \in SyncIds : Finish(i)

SpecVenmo == InitVenmo /\ [][NextVenmo]_vars

-----------------------------------------------------------------------------
(* The scheduled run around the release time: the whole of main, started at  *)
(* several distances from the target time                                    *)

\* One rule for each weekday a run started on Tuesday or Wednesday books for
ReleaseLists ==
  { << Entry(W_Tuesday, T_2PM, BothTitle), Entry(W_Wednesday, T_7PM, NorthCourt) >> }

\* Start of the run: half a day, 20 minutes and 5 minutes before the target
\* time, and just after it
ReleaseClocks == { At(1, 12, 5, 0), At(1, 23, 40, 0), At(1, 23, 55, 0), At(2, 0, 0, 20) }

InitRelease ==
  \E list \in ReleaseLists, now \in ReleaseClocks :
     \E invoke \in {NoInvokeTime, InvokeAt(now)} :
        InitWith(Env(list, TargetStr(0, 0, 15), invoke, NoCli, DefaultDateTime,
                     DefaultSettings),
                 now)

SpecRelease == InitRelease /\ [][Next]_vars

-----------------------------------------------------------------------------
(* Properties of the Schedule Expander *)

\* The reference instant of a list-mode run: --invoke-time when it is given,
\* the clock at the start otherwise (the clock moves only in a run that has
\* an invoke time).
ReferenceInstant == IF env.invoke_time.given THEN env.invoke_time.instant ELSE clock

SecondsIntoDay(instant) == instant % DaySeconds

\* The expander has produced its answer for a reference instant it could read
Expanded ==
  /\ pc # "start"
  /\ env.creds
  /\ ListMode(env)
  /\ env.invoke_time.given => env.invoke_time.parses

\* The weekday a rule names, -1 when its day word is no day name or the rule
\* has no time part
RuleWeekday(rule) ==
  IF rule.time # NoText /\ IsDayName(Lower(rule.day))
  THEN DayNumber(Lower(rule.day)) ELSE -1

RulesFor(weekday) ==
  { i \in 1..Len(env.BOOKING_LIST) : RuleWeekday(env.BOOKING_LIST[i]) = weekday }

\* The queue holds exactly the rules of one weekday: one element per such
\* rule, each with that rule's time and court
QueueIsRulesFor(weekday) ==
  /\ Len(to_book_list) = Cardinality(RulesFor(weekday))
  /\ \A k \in 1..Len(to_book_list) :
       \E i \in RulesFor(weekday) :
          /\ to_book_list[k][2] = env.BOOKING_LIST[i].time
          /\ to_book_list[k][3] = env.BOOKING_LIST[i].court

\* Days from the reference date to the booking date: 7, and one more when
\* the reference clock time is more than 12 hours past the target clock time
LeadDays ==
  IF SecondsIntoDay(ReferenceInstant) - ParseTargetTime(env.BOOKING_TARGET_TIME)
       > 12 * 3600
  THEN 8 ELSE 7

\* C1 as stated: a rule is emitted if and only if its weekday is the weekday
\* of the reference date plus 7 days, whatever the target clock time.
C1_EmitsIffWeekdayOfReferencePlus7 ==
  Expanded => QueueIsRulesFor(Weekday(DateOf(ReferenceInstant) + 7))

\* C1 amended: a rule is emitted if and only if its weekday is the weekday of
\* the target booking date plus 7 days, the target booking date being the
\* reference date, or the day after it when the reference clock time is more
\* than 12 hours past the target clock time (Tuesday 23:55 with target
\* 00:00:15 selects the Wednesday rules).
C1_EmitsIffWeekdayOfTargetPlus7 ==
  Expanded => QueueIsRulesFor(Weekday(DateOf(ReferenceInstant) + LeadDays))

\* C1 witness: a reference instant late on Tuesday whose target lies after
\* midnight, with one Wednesday rule emitted and another rule skipped.
C1_Witness ==
  /\ Expanded
  /\ pc = "setup"
  /\ Weekday(DateOf(ReferenceInstant)) = 1
  /\ LeadDays = 8
  /\ Len(to_book_list) = 1
  /\ Len(env.BOOKING_LIST) = 2

BookCourtCalls == SelectSeq(events, LAMBDA e : e.op = "book_court")

\* C2 as stated: in list mode every booking attempt is made for the
\* reference date plus 7 days.
C2_DateIsReferencePlus7 ==
  Expanded =>
    \A k \in 1..Len(BookCourtCalls) :
       BookCourtCalls[k].date = DateOf(ReferenceInstant) + 7

\* C2 amended: in list mode every booking attempt is made for the reference
\* date plus 7 days, or plus 8 days when the reference clock time is more
\* than 12 hours past the target clock time (a reference instant just before
\* midnight with a target just after it).
C2_DateIsTargetPlus7 ==
  Expanded =>
    /\ pc # "exit" => BOOKING_DATE = DateOf(ReferenceInstant) + LeadDays
    /\ \A k \in 1..Len(BookCourtCalls) :
          BookCourtCalls[k].date = DateOf(ReferenceInstant) + LeadDays

\* C2 witness: a booking attempt of a run started at 23:55.
C2_Witness ==
  /\ Expanded
  /\ LeadDays = 8
  /\ Len(BookCourtCalls) > 0
  /\ BookCourtCalls[1].date = DateOf(ReferenceInstant) + 8


-----------------------------------------------------------------------------
(* Properties of the orchestration *)

IsBoth(selector) == Lower(selector) = BothLower

\* Number of booking attempts one queue entry stands for
AttemptsOf(entry) ==
  LET selector == IF entry[3] # NoText THEN entry[3] ELSE env.COURT_NAME
  IN IF IsBoth(selector) THEN 2 ELSE 1

RECURSIVE AttemptsBefore(_)
AttemptsBefore(i) ==
  IF i <= 1 THEN 0 ELSE AttemptsBefore(i - 1) + AttemptsOf(to_book_list[i - 1])

\* C3: a queue entry whose court selector is "both" in any letter case is
\* booked by exactly two attempts, North Pickleball Court then South
\* Pickleball Court, with the entry's date, time and duration; an entry that
\* names a court is booked by exactly one attempt, for that court.
C3_BothYieldsTwoAttempts ==
  /\ Len(BookCourtCalls) = AttemptsBefore(idx) + court_idx - 1
  /\ Len(booking_details) = Len(BookCourtCalls)
  /\ \A i \in 1..Len(to_book_list) :
       i < idx =>
         LET entry == to_book_list[i]
             k == AttemptsBefore(i)
         IN /\ entry[3] # NoText /\ IsBoth(entry[3]) =>
                 /\ AttemptsBefore(i + 1) = k + 2
                 /\ BookCourtCalls[k + 1] =
                      Ev("book_court", BOOKING_DATE, entry[2], NorthCourt)
                 /\ BookCourtCalls[k + 2] =
                      Ev("book_court", BOOKING_DATE, entry[2], SouthCourt)
                 /\ booking_details[k + 1].duration = booking_details[k + 2].duration
            /\ entry[3] # NoText /\ ~IsBoth(entry[3]) =>
                 /\ AttemptsBefore(i + 1) = k + 1
                 /\ BookCourtCalls[k + 1] =
                      Ev("book_court", BOOKING_DATE, entry[2], entry[3])

\* C3 witness: the loop has finished a "both" entry and a single-court entry.
C3_Witness ==
  /\ pc = "loop"
  /\ idx = 3
  /\ IsBoth(to_book_list[1][3])
  /\ to_book_list[2][3] = SouthCourt
  /\ Len(BookCourtCalls) = 3

\* Some rule of the list is for the weekday the expander matches against
SomeRuleMatches == RulesFor(Weekday(DateOf(ReferenceInstant) + LeadDays)) # {}

\* C4: when no rule matches the target weekday the run ends at once: no
\* browser is started, nothing is logged into, the waiter is not called and
\* no booking is attempted.
C4_EmptySchedulePathIsInert ==
  Expanded /\ ~SomeRuleMatches =>
    /\ pc = "exit"
    /\ events = << >>
    /\ ~waiter.called
    /\ clock = ReferenceInstant
    /\ booking_details = << >>
    /\ ~booking_summary.built

\* C4 witness: a list of well-formed rules, none for the target weekday.
C4_Witness ==
  /\ Expanded
  /\ ~SomeRuleMatches
  /\ pc = "exit"
  /\ env.invoke_time.given
  /\ \A i \in 1..Len(env.BOOKING_LIST) : RuleWeekday(env.BOOKING_LIST[i]) >= 0

Positions(op) == { k \in 1..Len(events) : events[k].op = op }

\* A run in list mode with an invoke time
Scheduled == ListMode(env) /\ env.invoke_time.given

\* C8: in a scheduled run every slot scan comes after a successful login, the
\* opening of the calendar page, the call of the waiter and the reload of the
\* calendar page, in this order; the reload follows the waiter directly, so
\* that no scan lies between them.
C8_ReloadBeforeFirstScan ==
  Scheduled =>
    /\ \A op \in {"login_ok", "calendar_opened", "wait", "reload"} :
          Cardinality(Positions(op)) <= 1
    /\ \A k \in Positions("scan") \cup Positions("book_court") :
          \E a \in Positions("login_ok"), b \in Positions("calendar_opened"),
             c \in Positions("wait"), d \in Positions("reload") :
             a < b /\ b < c /\ c < d /\ d < k
    /\ \A k \in Positions("wait") :
          /\ k > 1 /\ events[k - 1].op = "calendar_opened"
          /\ k < Len(events) => events[k + 1].op \in {"reload", "reload_raised"}

\* C8 witness: a scheduled run that has scanned the grid.
C8_Witness ==
  /\ Scheduled
  /\ Positions("scan") # {}
  /\ waiter.called

\* C9: the waiter is called at most once in a run, and only in list mode
\* with an invoke time; every other run goes from the opening of the calendar
\* page straight to its first booking attempt.
C9_WaitOnlyWhenScheduled ==
  /\ Cardinality(Positions("wait")) <= 1
  /\ waiter.called <=> Positions("wait") # {}
  /\ Positions("wait") # {} => Scheduled
  /\ ~Scheduled =>
       /\ clock = ReferenceInstant
       /\ \A k \in Positions("calendar_opened") :
            k < Len(events) => events[k + 1].op = "book_court"

\* C9 witness: a manual run that was given an invoke time has gone from the
\* calendar page to a booking attempt.
C9_Witness ==
  /\ env.cli.given
  /\ env.invoke_time.given
  /\ \E k \in Positions("calendar_opened") :
        k < Len(events) /\ events[k + 1].op = "book_court"


-----------------------------------------------------------------------------
(* Properties of the Release-Time Waiter *)

\* Seconds by which the waiter's "now" is past today's occurrence of the
\* target clock time (negative before it)
PastTarget ==
  SecondsIntoDay(waiter.now) - ParseTargetTime(env.BOOKING_TARGET_TIME)

HardCap == waiter.grace * 60

Min(a, b) == IF a < b THEN a ELSE b

\* C5: a call made after today's target clock time, and at most the grace
\* period after it, returns without sleeping.
C5_WithinGraceReturnsAtOnce ==
  waiter.called /\ PastTarget > 0 /\ PastTarget <= HardCap =>
    /\ waiter.early
    /\ waiter.slept = 0
    /\ clock = waiter.now

\* C5 witness: a call 3 minutes after the target with the 10-minute grace.
C5_Witness ==
  /\ waiter.called
  /\ PastTarget = 180
  /\ waiter.grace = DefaultGraceMinutes
  /\ waiter.slept = 0

\* C6: the time slept is never negative and never more than the hard cap,
\* the grace period in seconds.
C6_SleepWithinHardCap ==
  waiter.called =>
    /\ waiter.slept >= 0
    /\ waiter.slept <= HardCap
    /\ clock - waiter.now = waiter.slept

\* C6 witness: the target is further away than the hard cap and the sleep is
\* cut to the cap.
C6_Witness ==
  /\ waiter.called
  /\ waiter.target_time - waiter.now > HardCap
  /\ waiter.slept = HardCap

-----------------------------------------------------------------------------
(* Properties of the slot scan *)

\* The cell has an interactive indicator, its text contains the court name
\* and the text of its row contains the start time
CellQualifies(cell, court_name, start_time) ==
  /\ cell.has_div /\ cell.onclick # NoText
  /\ Contains(cell.div_text, court_name)
  /\ Contains(cell.row_text, start_time)

QualifyingCells ==
  { i \in 1..Len(lastScan.grid) :
      CellQualifies(lastScan.grid[i], lastScan.court, lastScan.time) }

\* C10: the scan selects the first cell in document order that has an
\* interactive indicator, names the court and stands in a row whose text
\* contains the start time; it finds nothing exactly when there is no such
\* cell, and then the attempt is recorded as failed, not as an error.
C10_ScanSelectsFirstQualifyingCell ==
  pc = "located" =>
    /\ lastScan.ran
    /\ lastScan.found = 0 <=> QualifyingCells = {}
    /\ lastScan.found # 0 =>
         /\ lastScan.found \in QualifyingCells
         /\ \A i \in QualifyingCells : lastScan.found <= i
    /\ lastScan.found = 0 =>
         /\ booking_details[1].status = "failed"
         /\ Positions("slot_click") = {}

\* C10 witness: the only cell of the asked court and time has no onclick,
\* and the scan finds nothing.
C10_Witness ==
  /\ pc = "located"
  /\ lastScan.found = 0
  /\ Len(lastScan.grid) = 2
  /\ \E i \in 1..Len(lastScan.grid) :
        /\ lastScan.grid[i] = TakenCell(lastScan.time, lastScan.court)
        /\ \A j \in 1..Len(lastScan.grid) :
              j # i => lastScan.grid[j] = PlainCell(T_12PM)

\* A grid with two qualifying cells, of which the scan took the first
C10_FirstOfTwo ==
  /\ pc = "located"
  /\ Cardinality(QualifyingCells) = 2
  /\ lastScan.found = 2

\* The text begins with the prefix
StartsWith(text, prefix) ==
  /\ Len(prefix) <= Len(text)
  /\ SubSeq(text, 1, Len(prefix)) = prefix

\* C11: a cell selected by the scan lies in the row of the requested start
\* time: the text of its row begins with the time label that was asked for,
\* never with the label of another time of day.
C11_SelectedCellInRequestedRow ==
  (pc = "located" /\ lastScan.found # 0) =>
     StartsWith(lastScan.grid[lastScan.found].row_text, lastScan.time)

-----------------------------------------------------------------------------
(* Properties of book_court and of the recording of its outcome *)

\* The i-th book_court call of the run and the operations it performed
NCalls == Cardinality(Positions("book_court"))

NthCall(i) ==
  CHOOSE p \in Positions("book_court") :
     Cardinality({ q \in Positions("book_court") : q < p }) = i - 1

AttemptOps(i) ==
  { events[p].op :
      p \in { q \in NthCall(i)..Len(events) :
                /\ events[q].court # NoText
                /\ i < NCalls => q < NthCall(i + 1) } }

\* The scan ran and found no slot
NotFoundAttempt(i) == "no_slot_found" \in AttemptOps(i)

\* The attempt ended in an exception or at a page without a usable date field
ErrorAttempt(i) ==
  \/ "booking_error" \in AttemptOps(i)
  \/ "date_field_missing" \in AttemptOps(i)

\* C12: the status recorded for an attempt whose slot was not found differs
\* from the status recorded for an attempt that ended in an exception or a
\* site-structure mismatch.
C12_NotFoundAndErrorDiffer ==
  \A i, j \in 1..Len(booking_details) :
     (NotFoundAttempt(i) /\ ErrorAttempt(j)) =>
        booking_details[i].status # booking_details[j].status

\* C13: with the safety flag off, the submit control is clicked only in an
\* attempt whose duration step set the requested duration; when neither the
\* select nor the combo box could be set, there is no submit click.
C13_SubmitOnlyAfterDurationSet ==
  \A i \in 1..Len(booking_details) :
     "submit_click" \in AttemptOps(i) => "duration_set" \in AttemptOps(i)

\* C14: with the safety flag off, an attempt is recorded as 'success' only
\* if its submit control was found and clicked; an attempt without a submit
\* click is recorded as failed.
C14_SuccessOnlyAfterSubmitClick ==
  ~SafetyModeOn(env.SAFETY_MODE) =>
     \A i \in 1..Len(booking_details) :
        booking_details[i].status = "success" => "submit_click" \in AttemptOps(i)

\* C15: an attempt whose submit control was clicked is recorded as 'success'
\* whether the confirmation was closed or not: a dismissal that finds no
\* close control or throws leaves the status 'success'.
C15_SubmittedIsSuccess ==
  \A i \in 1..Len(booking_details) :
     "submit_click" \in AttemptOps(i) => booking_details[i].status = "success"

\* C15 witness: two attempts of a finished run that were submitted, one whose
\* dismissal found no close control and one whose dismissal threw
C15_Witness ==
  /\ pc = "done"
  /\ Len(booking_details) = 2
  /\ "submit_click" \in AttemptOps(1) /\ "close_not_found" \in AttemptOps(1)
  /\ "submit_click" \in AttemptOps(2) /\ "close_raised" \in AttemptOps(2)
  /\ booking_details[1].status = "success"
  /\ booking_details[2].status = "success"

\* The texts of SAFETY_MODE that spell 'false' in some letter case
SpellsFalse(text) ==
  /\ Len(text) = 5
  /\ \A k \in 1..5 : text[k] \in { SafetyText_false[k], SafetyText_FALSE[k] }

\* C16: unless SAFETY_MODE spells 'false' in some letter case, no run
\* clicks a slot or a submit control (or touches the dialog at all): an
\* attempt ends when its scan ends.
C16_SafetyModeNeverClicks ==
  ~SpellsFalse(env.SAFETY_MODE) =>
     /\ Positions("slot_click") = {}
     /\ Positions("submit_click") = {}
     /\ Positions("duration_set") = {}
     /\ \A i \in 1..Len(booking_details) :
           AttemptOps(i) \subseteq { "book_court", "scan", "no_slot_found",
                                    "date_field_missing", "booking_error" }

\* C16 witness: SAFETY_MODE is 'no', the run is over, and its attempt located
\* a bookable slot
C16_Witness ==
  /\ pc = "done"
  /\ env.SAFETY_MODE = SafetyText_no
  /\ Len(booking_details) = 1
  /\ lastScan.found # 0
  /\ AttemptOps(1) = { "book_court", "scan" }

-----------------------------------------------------------------------------
(* Properties of the booking loop and its summary *)

\* C17: in the booking summary of a completed run the attempted count is
\* the number of recorded outcomes and the sum of the successful and the
\* failed count.
C17_SummaryCountsAgree ==
  booking_summary.built =>
     /\ booking_summary.total_attempts = Len(booking_details)
     /\ booking_summary.total_attempts =
          booking_summary.successful + booking_summary.failed

\* Number of recorded outcomes whose status is not 'success'
FailedOutcomes ==
  Cardinality({ i \in 1..Len(booking_details) : booking_details[i].status # "success" })

\* C18: once the loop has been entered no attempt ends the run: after every
\* recorded outcome main is still in the loop until the summary is built,
\* the summary is built only when every entry has had all its attempts, and
\* every failure is counted as one recorded outcome.
C18_FailedAttemptDoesNotStopRun ==
  /\ (booking_details # << >> /\ ~booking_summary.built) => pc = "loop"
  /\ pc = "loop" => Len(booking_details) = AttemptsBefore(idx) + court_idx - 1
  /\ booking_summary.built =>
        /\ idx = Len(to_book_list) + 1
        /\ Len(booking_details) = AttemptsBefore(Len(to_book_list) + 1)
        /\ NCalls = Len(booking_details)
  /\ failed_bookings = FailedOutcomes

\* C18 witness: a finished run of three attempts whose first ended in an
\* exception and whose second found no slot
C18_Witness ==
  /\ pc = "done"
  /\ booking_summary.built
  /\ Len(booking_details) = 3
  /\ "booking_error" \in AttemptOps(1)
  /\ "no_slot_found" \in AttemptOps(2)
  /\ booking_details[1].status = "failed"
  /\ booking_details[2].status = "failed"

\* login() returned False or raised, or find_booking_page() returned False
SessionFailed ==
  \/ Positions("login_failed") # {}
  \/ Positions("login_raised") # {}
  \/ Positions("calendar_failed") # {}

\* C19: a run whose login or navigation failed is aborted: it never waits,
\* reloads, scans or attempts a booking and builds no summary; and while
\* attempts are being made, a failed one does not abort the run.
C19_SessionFailureAborts ==
  /\ SessionFailed =>
        /\ pc \in {"closing", "except", "done"}
        /\ Positions("wait") = {} /\ Positions("reload") = {}
        /\ Positions("book_court") = {} /\ Positions("scan") = {}
        /\ ~waiter.called
        /\ booking_details = << >>
        /\ ~booking_summary.built
  /\ \A i \in 1..Len(booking_details) :
        booking_details[i].status # "success" =>
           (pc = "loop" \/ booking_summary.built)

\* C19 witness: navigation failed in a scheduled run with a matching rule,
\* and the run has ended without a wait or an attempt
C19_Witness ==
  /\ pc = "done"
  /\ Scheduled
  /\ to_book_list # << >>
  /\ Positions("calendar_failed") # {}
  /\ Positions("wait") = {}
  /\ Positions("book_court") = {}

\* The rules of BOOKING_LIST that name the weekday of the booking date, in
\* the order of the list
MatchedRules ==
  SelectSeq(env.BOOKING_LIST, LAMBDA rule : RuleWeekday(rule) = Weekday(BOOKING_DATE))

\* The attempts one queue entry stands for: North then South for "both",
\* else the one court
ExpandEntry(entry) ==
  LET selector == IF entry[3] # NoText THEN entry[3] ELSE env.COURT_NAME
      courts == IF IsBoth(selector) THEN <<NorthCourt, SouthCourt>> ELSE <<selector>>
  IN [k \in 1..Len(courts) |-> Ev("book_court", BOOKING_DATE, entry[2], courts[k])]

RECURSIVE ExpectedCalls(_)
ExpectedCalls(n) ==
  IF n = 0 THEN << >> ELSE ExpectedCalls(n - 1) \o ExpandEntry(to_book_list[n])

\* C20: the queue is the matched rules in list order, and the book_court
\* calls of the run are, in order, the expansion of the queue into courts
\* (North then South): at every moment a prefix of it, and all of it, each
\* attempt once, when the summary is built - whatever the outcomes were.
C20_AttemptsFollowListOrder ==
  LET expected == ExpectedCalls(Len(to_book_list))
  IN /\ (ListMode(env) /\ to_book_list # << >>) =>
           /\ Len(to_book_list) = Len(MatchedRules)
           /\ \A k \in 1..Len(to_book_list) :
                 /\ to_book_list[k][2] = MatchedRules[k].time
                 /\ to_book_list[k][3] = MatchedRules[k].court
     /\ Len(BookCourtCalls) <= Len(expected)
     /\ BookCourtCalls = SubSeq(expected, 1, Len(BookCourtCalls))
     /\ booking_summary.built => BookCourtCalls = expected

\* C20 witness: a finished list-mode run of a "both" rule followed by a
\* single-court rule, whose first attempt failed and was not repeated
C20_Witness ==
  /\ pc = "done"
  /\ booking_summary.built
  /\ ListMode(env)
  /\ Len(to_book_list) = 2
  /\ IsBoth(to_book_list[1][3])
  /\ Len(BookCourtCalls) = 3
  /\ booking_details[1].status = "failed"
  /\ BookCourtCalls[1].court = NorthCourt
  /\ BookCourtCalls[2].court = SouthCourt

-----------------------------------------------------------------------------
(* Properties of the acquisition transaction *)

\* The operations of the i-th book_court call, in the order they were done
AttemptSeq(i) ==
  LET last == IF i < NCalls THEN NthCall(i + 1) - 1 ELSE Len(events)
      own == SelectSeq(SubSeq(events, NthCall(i), last), LAMBDA e : e.court # NoText)
  IN [k \in 1..Len(own) |-> own[k].op]

\* The state of the transaction an operation belongs to: 1 SlotIdentified
\* (the slot is clicked), 2 ModalOpened, 3 DurationConfigured (the duration
\* step), 4 Submitted (the submit step), 5 ConfirmationDismissed (the
\* dismissal), 6 Failed; 0 for what precedes the transaction.
StageOf(op) ==
  CASE op = "slot_click" -> 1
    [] op = "dialog_opened" -> 2
    [] op \in {"use_select", "use_hidden_select", "use_combo", "duration_set",
               "duration_not_set"} -> 3
    [] op \in {"try_id", "found_by_id", "try_onclick", "found_by_onclick",
               "try_text", "submit_click"} -> 4
    [] op \in {"close_click", "close_not_found", "close_raised"} -> 5
    [] op = "booking_error" -> 6
    [] OTHER -> 0

\* C21: the operations of every attempt are done in the order of the states
\* SlotIdentified, ModalOpened, DurationConfigured, Submitted,
\* ConfirmationDismissed, with Failed last wherever it occurs: the frame is
\* discovered only after the slot click, a submit click comes only after the
\* duration step, and the dismissal is entered only after a submit click.
C21_TransactionStatesInOrder ==
  \A i \in 1..NCalls :
     LET ops == AttemptSeq(i)
         Earlier(q, S) == \E p \in 1..(q - 1) : ops[p] \in S
     IN /\ \A p, q \in 1..Len(ops) : p < q => StageOf(ops[p]) <= StageOf(ops[q])
        /\ \A q \in 1..Len(ops) :
              /\ StageOf(ops[q]) = 2 => Earlier(q, {"slot_click"})
              /\ StageOf(ops[q]) = 3 => Earlier(q, {"dialog_opened"})
              /\ ops[q] = "submit_click" =>
                    Earlier(q, {"duration_set", "duration_not_set"})
              /\ StageOf(ops[q]) = 5 => Earlier(q, {"submit_click"})
              /\ ops[q] = "booking_error" => q = Len(ops)

\* C21 witness: a finished run with the safety flag off whose first attempt
\* went through all five states and whose second failed after the dialog
\* had opened
C21_Witness ==
  /\ pc = "done"
  /\ ~SafetyModeOn(env.SAFETY_MODE)
  /\ NCalls = 2
  /\ AttemptSeq(1) = << "book_court", "scan", "slot_click", "dialog_opened",
                        "use_combo", "duration_set", "try_id", "found_by_id",
                        "submit_click", "close_click" >>
  /\ "dialog_opened" \in AttemptOps(2)
  /\ "booking_error" \in AttemptOps(2)

\* C22: in the duration step a visible select that offers minutes is used
\* when there is one; whenever none is visible, the step turns to the
\* Telerik combo box.
C22_NoVisibleSelectFallsBackToWidget ==
  \A i \in 1..NCalls :
     ("duration_set" \in AttemptOps(i) \/ "duration_not_set" \in AttemptOps(i)) =>
        ("use_select" \in AttemptOps(i) \/ "use_combo" \in AttemptOps(i))

\* C23: the submit control is looked for by id, then by onclick, then by
\* label text, and a later strategy is consulted only in an attempt in which
\* every earlier strategy found no control.
C23_LowerStrategyOnlyWhenHigherFoundNone ==
  \A i \in 1..NCalls :
     /\ "try_onclick" \in AttemptOps(i) => "found_by_id" \notin AttemptOps(i)
     /\ "try_text" \in AttemptOps(i) =>
           /\ "found_by_id" \notin AttemptOps(i)
           /\ "found_by_onclick" \notin AttemptOps(i)

-----------------------------------------------------------------------------
(* Properties of login *)

\* login ran on a page that loaded
LoggedInOn(page) == lastLogin.ran /\ lastLogin.page = page /\ page.goto = "ok"

CredentialsEntered == Positions("fill_credentials") # {}
CredentialsSubmitted == Positions("login_click") # {}
PageDumped == Positions("login_dump") # {}

\* C24 as stated: login commits to the first single strategy (selector
\* position) that yields both a username and a password field; when no
\* strategy yields both, it fails, dumps the page and enters no credentials.
C24_CommitsToFirstStrategyWithBoth ==
  \A page \in LoginPages :
     LoggedInOn(page) =>
        LET both == page.username \cap page.password
        IN IF both # {}
           THEN /\ CredentialsEntered
                /\ lastLogin.username_selector = lastLogin.password_selector
                /\ lastLogin.username_selector \in both
                /\ \A k \in both : lastLogin.username_selector <= k
           ELSE /\ ~lastLogin.result
                /\ PageDumped
                /\ ~CredentialsEntered /\ ~CredentialsSubmitted

\* C24 amended: login takes, for each field on its own, the first selector
\* of that field's list that yields a field; when either field is not
\* found it fails, dumps the page and neither enters nor submits credentials.
C24_FirstSelectorPerField ==
  \A page \in LoginPages :
     LoggedInOn(page) =>
        /\ page.username # {} =>
              /\ lastLogin.username_selector \in page.username
              /\ \A k \in page.username : lastLogin.username_selector <= k
        /\ page.password # {} =>
              /\ lastLogin.password_selector \in page.password
              /\ \A k \in page.password : lastLogin.password_selector <= k
        /\ (page.username # {} /\ page.password # {}) =>
              CredentialsEntered /\ ~PageDumped
        /\ (page.username = {} \/ page.password = {}) =>
              /\ ~lastLogin.result
              /\ PageDumped
              /\ ~CredentialsEntered /\ ~CredentialsSubmitted
              /\ Positions("login_failed") # {}

\* C24 witness: the username field is found by the second selector, the
\* password field by the fourth only, and the run has logged in
C24_Witness ==
  /\ lastLogin.ran
  /\ lastLogin.page.username = {2, 3}
  /\ lastLogin.page.password = {4}
  /\ lastLogin.username_selector = 2
  /\ lastLogin.password_selector = 4
  /\ lastLogin.result
  /\ pc = "done"

-----------------------------------------------------------------------------
(* Properties of the run around the release time *)

\* C25: once the session is authenticated and the calendar is open, no
\* timeout ends the run: a run that has ended has made every attempt of its
\* queue and built its summary - also when the reload after the wait timed
\* out.
C25_TimeoutNeverEndsRun ==
  (pc = "done" /\ Positions("calendar_opened") # {}) =>
     /\ booking_summary.built
     /\ NCalls = AttemptsBefore(Len(to_book_list) + 1)

\* The next day's occurrence of the target clock time, seen from the
\* waiter's "now"
NextDayTarget == waiter.now - PastTarget + DaySeconds

-----------------------------------------------------------------------------
(* Properties of the target booking instant *)

\* The reference day's occurrence of the target clock time
TodayTarget ==
  DateOf(ReferenceInstant) * DaySeconds + ParseTargetTime(env.BOOKING_TARGET_TIME)

\* The target booking instant: today's occurrence, moved to the next day
\* exactly when the reference instant is more than 12 hours later than it
TargetInstant ==
  IF ReferenceInstant - TodayTarget > 12 * 3600
  THEN TodayTarget + DaySeconds
  ELSE TodayTarget

\* C27: the booking date is the date of the target booking instant plus 7
\* days, and the queue holds exactly the rules of that date's weekday.
C27_BookingDateFromTargetInstant ==
  Expanded =>
     /\ pc # "exit" => BOOKING_DATE = DateOf(TargetInstant) + 7
     /\ QueueIsRulesFor(Weekday(DateOf(TargetInstant) + 7))

\* C27 witness: the reference instant is exactly 12 hours after today's
\* target; the target instant stays on the reference day and a rule is
\* queued for that day plus 7.
C27_Witness ==
  /\ Expanded
  /\ pc = "setup"
  /\ ReferenceInstant - TodayTarget = 12 * 3600
  /\ BOOKING_DATE = DateOf(ReferenceInstant) + 7
  /\ to_book_list # << >>

\* C28: in a scheduled run, once the first slot scan has started, the
\* calendar date of the clock plus 7 days is on or after the booking date the
\* expander computed.
C28_ScanNotBeforeRelease ==
  (Scheduled /\ Positions("scan") # {}) => DateOf(clock) + BookingLeadDays >= BOOKING_DATE

-----------------------------------------------------------------------------
(* Properties of the run ledger *)

\* The counters and the entries of booking_details agree
LedgerAgrees ==
  /\ successful_bookings + failed_bookings = Len(booking_details)
  /\ \A k \in 1..Len(booking_details) :
       booking_details[k].status \in {"success", "failed", "error"}
  /\ successful_bookings =
       Cardinality({ k \in 1..Len(booking_details) :
                       booking_details[k].status = "success" })

\* booking_details only grows at its end: what was appended stays as it was
LedgerWriteOnce ==
  /\ Len(booking_details') >= Len(booking_details)
  /\ SubSeq(booking_details', 1, Len(booking_details)) = booking_details

\* C29: after every attempt of the loop the two counters add up to the number
\* of entries of booking_details, every entry has status success, failed or
\* error, successful_bookings is the number of success entries, and no step
\* changes or removes an entry already appended.
C29_LedgerConsistentAndWriteOnce ==
  [] LedgerAgrees /\ [][LedgerWriteOnce]_vars

\* C29 witness: the loop has recorded a success and then a failure
C29_Witness ==
  /\ pc = "loop"
  /\ Len(booking_details) = 2
  /\ booking_details[1].status = "success"
  /\ booking_details[2].status = "failed"
  /\ successful_bookings = 1
  /\ failed_bookings = 1

-----------------------------------------------------------------------------
(* Properties of the Venmo sync *)

\* C30: no transaction ID is recorded twice in the Payment Log, whatever the
\* number of invocations and however they overlap.
C30_NoTransactionRecordedTwice ==
  \A j, k \in 1..Len(payment_log) : payment_log[j] = payment_log[k] => j = k

====
